---------------------------- MODULE Spec2Model ----------------------------
(***************************************************************************)
(* Model of the textual front end: the term / rule grammar                 *)
(* (src/parser/parser.rs), book assembly (rules_to_book), the AST's        *)
(* Display rendering and the NumOper opcode tables (src/ast/hvm_lang.rs).  *)
(*                                                                         *)
(* A source text is held after tokenisation: a sequence of tokens          *)
(* <<tok, val>>.  The span of the k-th token is [k-1, k): every lexeme is    *)
(* taken to occupy one unit of the source, so spans keep the order and     *)
(* nesting of the byte spans the tokenizer attaches.  Name lengths are the *)
(* real string lengths.                                                    *)
(***************************************************************************)
EXTENDS Integers, Sequences, FiniteSets, TLC

VARIABLES
  pc,      \* position of the caller: "idle", "grouping", "displayed", "encoded", "decoded", "done"
  call,    \* the public operation in progress
  code,    \* the source text handed to the parser: its lines, each a sequence of tokens
  offset,  \* the position in the token stream the parser has reached
  rules,   \* rules_to_book: the Vec<(Rule, SimpleSpan)> received
  idx,     \* rules_to_book: index of the first rule of the next group
  book,    \* rules_to_book: book.defs, a map Name -> Definition
  errs,    \* diagnostics emitted so far (the parse's secondary errors)
  term,    \* the Term given to Display
  oper,    \* the NumOper given to u8::from / returned by try_from
  byte,    \* the u8 given to NumOper::try_from / returned by u8::from
  result   \* what the operation returned

vars == <<pc, call, code, offset, rules, idx, book, errs, term, oper, byte, result>>

-----------------------------------------------------------------------------
(* Bounds of the model *)

MaxRules == 4      \* lines of a book source
MaxItems == 4      \* items of an application source
MaxTermSize == 4   \* nodes of a Term given to Display

-----------------------------------------------------------------------------
(* AST: src/ast/hvm_lang.rs *)

Lam(nam, bod) == <<"Lam", nam, bod>>
Var(nam) == <<"Var", nam>>
App(fun, arg) == <<"App", fun, arg>>
Dup(fst, snd, val, nxt) == <<"Dup", fst, snd, val, nxt>>
Num(val) == <<"Num", val>>
NumOp(op, fst, snd) == <<"NumOp", op, fst, snd>>
Sup(fst, snd) == <<"Sup", fst, snd>>
Era == <<"Era">>

NumOper ==
  <<"Add", "Sub", "Mul", "Div", "Mod", "And", "Or", "Xor",
    "Shl", "Shr", "Ltn", "Lte", "Gtn", "Gte", "Eql", "Neq">>

NumOperSet == {NumOper[k] : k \in 1..Len(NumOper)}

Rule(name, body) == [name |-> name, pats |-> <<>>, body |-> body]

\* the rule left out of the definition
Definition_no_rule(rule) == [name |-> rule.name, rules |-> <<>>]

Definition(rule) == [name |-> rule.name, rules |-> <<rule>>]

-----------------------------------------------------------------------------
(* Tokens: the tokenizer's output *)

T(tok) == <<tok, "">>
TName(name) == <<"Name", name>>
TNumber(num) == <<"Number", num>>
TOp(op) == <<"NumOper", op>>

SimpleSpan(start, end) == [start |-> start, end |-> end]

\* The span of the tokens consumed between two stream positions.
span_since(before, after) == SimpleSpan(before - 1, after - 1)

-----------------------------------------------------------------------------------------------------------------------------------------------------
(* Parser results.  A parser is an operator on (stream, position): it      *)
(* returns the value, the position after the tokens it consumed and the    *)
(* diagnostics it emitted; a failing parser consumes and emits nothing     *)
(* (the caller rewinds).                                                   *)

POk(val, pos, emitted) == [ok |-> TRUE, val |-> val, pos |-> pos, errs |-> emitted]
PErr == [ok |-> FALSE, val |-> <<>>, pos |-> 0, errs |-> <<>>]

\* K applied to the value of v, which is evaluated once
Strict(v, K(_)) == CHOOSE y \in {K(x) : x \in {v}} : TRUE

\* a.then(..): the rest of a sequence runs on the result of its first part, and
\* the sequence fails where a part fails
Then(r, K(_)) == Strict(r, LAMBDA x : IF x.ok THEN K(x) ELSE PErr)

\* a.or(b), the step of choice((a, b, ..)): the first alternative that succeeds
Or(r, alt) == Strict(r, LAMBDA x : IF x.ok THEN x ELSE alt)

TokAt(inp, pos) == IF pos <= Len(inp) THEN inp[pos][1] ELSE "EndOfInput"

just(inp, pos, tok) ==
  IF TokAt(inp, pos) = tok THEN POk(<<>>, pos + 1, <<>>) ELSE PErr

\* just(Token::NewLine).repeated(): the position after the newlines at pos
RECURSIVE new_line(_, _)
new_line(inp, pos) ==
  IF TokAt(inp, pos) = "NewLine" THEN new_line(inp, pos + 1) ELSE pos

MAX_NAME_LEN == (64 - 16) \div 6

NameTooLong(name, span) ==
  [msg |-> "exceed maximum name length", name |-> name, span |-> span]

name_parser(inp, pos) ==
  IF TokAt(inp, pos) = "Name"
  THEN POk(inp[pos][2], pos + 1,
           IF Len(inp[pos][2]) > MAX_NAME_LEN
           THEN <<NameTooLong(inp[pos][2], span_since(pos, pos + 1))>>
           ELSE <<>>)
  ELSE PErr

number(inp, pos) ==
  IF TokAt(inp, pos) = "Number" THEN POk(Num(inp[pos][2]), pos + 1, <<>>) ELSE PErr

num_oper(inp, pos) ==
  IF TokAt(inp, pos) = "NumOper" THEN POk(inp[pos][2], pos + 1, <<>>) ELSE PErr

var(inp, pos) ==
  Then(name_parser(inp, pos), LAMBDA n : POk(Var(n.val), n.pos, n.errs))

\* the fold with its two sides exchanged
app_fold_swapped(fun, arg) == App(arg, fun)

app_fold(fun, arg) == App(fun, arg)

lam_map(name, body) == Lam(name, body)

dup_map(fst, snd, val, next) == Dup(fst, snd, val, next)

\* the bound value and the continuation exchanged
let_map_swapped(name, body, next) == App(Lam(name, body), next)

let_map(name, body, next) == App(Lam(name, next), body)

num_op_map(op, fst, snd) == NumOp(op, fst, snd)

RECURSIVE term_parser(_, _), nested(_, _), item(_, _), app_rest(_, _, _, _),
          app(_, _), lam(_, _), dup(_, _), let_(_, _), num_op(_, _)

nested(inp, pos) ==
  Then(just(inp, pos, "LParen"), LAMBDA lp :
  Then(term_parser(inp, new_line(inp, lp.pos)), LAMBDA t :
  Then(just(inp, new_line(inp, t.pos), "RParen"), LAMBDA rp :
    POk(t.val, rp.pos, t.errs))))

\* choice((var, number, nested))
item(inp, pos) == Or(var(inp, pos), Or(number(inp, pos), nested(inp, pos)))

\* item.repeated(), folded from the left into the accumulator
app_rest(inp, acc, pos, emitted) ==
  Strict(item(inp, pos), LAMBDA a :
    IF a.ok
    THEN Strict(app_fold(acc, a.val), LAMBDA f : app_rest(inp, f, a.pos, emitted \o a.errs))
    ELSE POk(acc, pos, emitted))

app(inp, pos) ==
  Then(item(inp, pos), LAMBDA f : app_rest(inp, f.val, f.pos, f.errs))

lam(inp, pos) ==
  Then(just(inp, pos, "Lambda"), LAMBDA l :
  Then(name_parser(inp, l.pos), LAMBDA name :
  Then(term_parser(inp, name.pos), LAMBDA body :
    POk(lam_map(name.val, body.val), body.pos, name.errs \o body.errs))))

dup(inp, pos) ==
  Then(just(inp, pos, "Dup"), LAMBDA d :
  Then(name_parser(inp, d.pos), LAMBDA fst :
  Then(name_parser(inp, fst.pos), LAMBDA snd :
  Then(just(inp, snd.pos, "Equals"), LAMBDA eq :
  Then(term_parser(inp, eq.pos), LAMBDA val :
  Then(just(inp, val.pos, "Semicolon"), LAMBDA semi :
  Then(term_parser(inp, new_line(inp, semi.pos)), LAMBDA next :
    POk(dup_map(fst.val, snd.val, val.val, next.val), next.pos,
        fst.errs \o snd.errs \o val.errs \o next.errs))))))))

let_(inp, pos) ==
  Then(just(inp, pos, "Let"), LAMBDA l :
  Then(name_parser(inp, l.pos), LAMBDA name :
  Then(just(inp, name.pos, "Equals"), LAMBDA eq :
  Then(term_parser(inp, eq.pos), LAMBDA body :
  Then(just(inp, body.pos, "Semicolon"), LAMBDA semi :
  Then(term_parser(inp, new_line(inp, semi.pos)), LAMBDA next :
    POk(let_map(name.val, body.val, next.val), next.pos,
        name.errs \o body.errs \o next.errs)))))))

num_op(inp, pos) ==
  Then(num_oper(inp, pos), LAMBDA op :
  Then(item(inp, op.pos), LAMBDA fst :
  Then(item(inp, fst.pos), LAMBDA snd :
    POk(num_op_map(op.val, fst.val, snd.val), snd.pos, fst.errs \o snd.errs))))

\* choice((lam, app, dup, let_, num_op, item))
term_parser(inp, pos) ==
  Or(lam(inp, pos), Or(app(inp, pos), Or(dup(inp, pos), Or(let_(inp, pos),
  Or(num_op(inp, pos), item(inp, pos))))))

rule_map(name, body) == Rule(name, body)

rule_parser(inp, pos) ==
  Then(just(inp, pos, "LParen"), LAMBDA lp :
  Then(name_parser(inp, lp.pos), LAMBDA name :
  Then(just(inp, name.pos, "RParen"), LAMBDA rp :
  Then(just(inp, rp.pos, "Equals"), LAMBDA eq :
  Then(term_parser(inp, new_line(inp, eq.pos)), LAMBDA body :
    POk(rule_map(name.val, body.val), body.pos, name.errs \o body.errs))))))

\* new_line.at_least(1): the separator between two rules
separator(inp, pos) ==
  IF TokAt(inp, pos) = "NewLine" THEN POk(<<>>, new_line(inp, pos), <<>>) ELSE PErr

\* rule_parser().map_with_span(..).separated_by(..).allow_leading().allow_trailing():
\* the rules from position pos on, added to acc.  A rule that fails to parse ends
\* the repetition with the rules collected before it.
RECURSIVE separated_by(_, _, _, _)
separated_by(inp, pos, acc, emitted) ==
  Strict(separator(inp, pos), LAMBDA sep :
    IF acc # <<>> /\ ~sep.ok THEN POk(acc, pos, emitted)
    ELSE Strict(IF sep.ok THEN sep.pos ELSE pos, LAMBDA before_item :
         Strict(rule_parser(inp, before_item), LAMBDA r :
           IF r.ok
           THEN Strict([rule |-> r.val, span |-> span_since(before_item, r.pos)], LAMBDA rs :
                  separated_by(inp, r.pos, Append(acc, rs), emitted \o r.errs))
           ELSE POk(acc, before_item, emitted))))

parsed_rules(inp) == separated_by(inp, 1, <<>>, <<>>)

-----------------------------------------------------------------------------
(* rules_to_book: src/parser/parser.rs *)

\* rules.group_by(|r1, r2| r1.name == r2.name): the last index of the group that
\* starts at `from`
RECURSIVE group_by(_, _)
group_by(rs, from) ==
  IF from < Len(rs) /\ rs[from].rule.name = rs[from + 1].rule.name
  THEN group_by(rs, from + 1)
  ELSE from

\* a length test that is off by one
def_rules_len_off_by_one(rs, from) == group_by(rs, from) - from + 2

def_rules_len(rs, from) == group_by(rs, from) - from + 1

\* a span that ends with the first rule of the group
def_span_first(rs, from) == SimpleSpan(rs[from].span.start, rs[from].span.end)

def_span(rs, from) == SimpleSpan(rs[from].span.start, rs[group_by(rs, from)].span.end)

MultipleRulesError(rs, from) ==
  [msg |-> "Definition with multiple rules", name |-> rs[from].rule.name,
   span |-> def_span(rs, from)]

RepeatedDefinitionError(rs, from) ==
  [msg |-> "Repeated definition", name |-> rs[from].rule.name, span |-> rs[from].span]

DefinitionBook_new == <<>>

\* a lookup that never finds the name
contains_key_never(defs, name) == FALSE

contains_key(defs, name) == name \in DOMAIN defs

insert(defs, name, def) ==
  [n \in DOMAIN defs \cup {name} |-> IF n = name THEN def ELSE defs[n]]

-----------------------------------------------------------------------------
(* parse(..).into_result(): src/parser/parser.rs *)

UnexpectedToken(pos) ==
  [msg |-> "unexpected token", name |-> "", span |-> span_since(pos, pos + 1)]

\* Parser::parse: the parser, then end of input; the diagnostics emitted on the
\* way are returned with the output, or with the failure.  The failure is
\* reported at the token the parser stopped at.
parse(inp, res) ==
  IF res.ok /\ res.pos > Len(inp)
  THEN [has_output |-> TRUE, output |-> res.val, errs |-> res.errs]
  ELSE [has_output |-> FALSE, output |-> <<>>,
        errs |-> IF res.ok THEN Append(res.errs, UnexpectedToken(res.pos))
                 ELSE <<UnexpectedToken(1)>>]

ROk(val) == [tag |-> "Ok", val |-> val, errs |-> <<>>]
RErr(es) == [tag |-> "Err", val |-> <<>>, errs |-> es]
RNone == [tag |-> "None", val |-> <<>>, errs |-> <<>>]
RPanic == [tag |-> "Panic", val |-> <<>>, errs |-> <<>>]

into_result(pr) ==
  IF pr.errs = <<>> /\ pr.has_output THEN ROk(pr.output) ELSE RErr(pr.errs)

\* token_stream(code): the tokens of the source's lines, a NewLine between two lines
RECURSIVE token_stream(_)
token_stream(src) ==
  IF src = <<>> THEN <<>>
  ELSE IF Len(src) = 1 THEN src[1]
  ELSE src[1] \o <<T("NewLine")>> \o token_stream(Tail(src))

parse_term(src) ==
  Strict(token_stream(src), LAMBDA inp :
  Strict(term_parser(inp, 1), LAMBDA res : into_result(parse(inp, res))))

-----------------------------------------------------------------------------
(* Display for Term, read back by the tokenizer: src/ast/hvm_lang.rs *)

RECURSIVE Display(_)
Display(t) ==
  CASE t[1] = "Lam" -> <<T("Lambda"), TName(t[2])>> \o Display(t[3])
    [] t[1] = "Var" -> <<TName(t[2])>>
    [] t[1] = "App" -> <<T("LParen")>> \o Display(t[2]) \o Display(t[3]) \o <<T("RParen")>>
    [] t[1] = "Dup" -> <<T("Dup"), TName(t[2]), TName(t[3]), T("Equals")>> \o Display(t[4])
                         \o <<T("Semicolon")>> \o Display(t[5])
    [] t[1] = "Num" -> <<TNumber(t[2])>>
    [] t[1] = "NumOp" -> <<T("LParen"), TOp(t[2])>> \o Display(t[3]) \o Display(t[4])
                           \o <<T("RParen")>>
    [] t[1] = "Sup" -> <<T("Error")>> \o Display(t[2]) \o Display(t[3]) \o <<T("Error")>>
    [] t[1] = "Era" -> <<TOp("Mul")>>

-----------------------------------------------------------------------------
(* Opcodes: src/ast/hvm_lang.rs *)

u8_from(value) ==
  CASE value = "Add" -> 0
    [] value = "Sub" -> 1
    [] value = "Mul" -> 2
    [] value = "Div" -> 3
    [] value = "Mod" -> 4
    [] value = "And" -> 5
    [] value = "Or" -> 6
    [] value = "Xor" -> 7
    [] value = "Shl" -> 8
    [] value = "Shr" -> 9
    [] value = "Ltn" -> 10
    [] value = "Lte" -> 11
    [] value = "Gtn" -> 12
    [] value = "Gte" -> 13
    [] value = "Eql" -> 14
    [] value = "Neq" -> 15

try_from(value) ==
  CASE value = 0 -> ROk("Add")
    [] value = 1 -> ROk("Sub")
    [] value = 2 -> ROk("Mul")
    [] value = 3 -> ROk("Div")
    [] value \in 4..15 -> RPanic
    [] OTHER -> RErr(<<>>)

-----------------------------------------------------------------------------
(* The inputs of the calls *)

LongName == "abcdefghi"

RuleLine(name, body) == <<T("LParen"), TName(name), T("RParen"), T("Equals")>> \o body

\* The lines of a book source: well-formed rules, a rule with an unclosed
\* parenthesis, a rule with an unrecognised character, a rule with an oversized
\* name, a blank line.
Lines ==
  {RuleLine("a", <<TNumber(1)>>), RuleLine("a", <<TNumber(2)>>), RuleLine("b", <<TNumber(1)>>)}
    \cup {RuleLine("a", <<T("LParen")>>), RuleLine("b", <<T("Error")>>)}
    \cup {RuleLine(LongName, <<TNumber(1)>>), <<>>}

RECURSIVE SeqsOf(_, _)
SeqsOf(S, n) ==
  IF n = 0 THEN {<<>>}
  ELSE {<<x>> \o s : x \in S, s \in SeqsOf(S, n - 1)}

BookSources == UNION {SeqsOf(Lines, n) : n \in 1..MaxRules}

\* Items of an application source, each with the term it denotes.
Items ==
  { [toks |-> <<TName("f")>>, term |-> Var("f")],
    [toks |-> <<TName("a")>>, term |-> Var("a")],
    [toks |-> <<TName("b")>>, term |-> Var("b")],
    [toks |-> <<TName("c")>>, term |-> Var("c")],
    [toks |-> <<TNumber(1)>>, term |-> Num(1)],
    [toks |-> <<T("LParen"), TName("f"), TName("a"), T("RParen")>>,
     term |-> App(Var("f"), Var("a"))] }

ItemSeqs == UNION {SeqsOf(Items, n) : n \in 2..MaxItems}

RECURSIVE ItemsText(_)
ItemsText(items) ==
  IF items = <<>> THEN <<>> ELSE Head(items).toks \o ItemsText(Tail(items))

AppSources == {<<ItemsText(items)>> : items \in ItemSeqs}

\* The parts of a let source: the bound value and the continuation.
LetValues ==
  { <<TNumber(1)>>,
    <<TName("f"), TName("a")>>,
    <<T("Lambda"), TName("y"), TName("y")>>,
    <<TOp("Add"), TNumber(1), TNumber(2)>>,
    <<T("Dup"), TName("p"), TName("q"), T("Equals"), TNumber(1), T("Semicolon"), TName("p")>> }

LetNexts ==
  { <<TName("x")>>,
    <<TName("f"), TName("x")>>,
    <<T("Lambda"), TName("y"), TName("x")>>,
    <<T("Let"), TName("y"), T("Equals"), TNumber(2), T("Semicolon"), TName("y")>> }

LetHead(name, value) == <<T("Let"), TName(name), T("Equals")>> \o value \o <<T("Semicolon")>>

LetNames == {"x", "f"}

\* `let x = V; N` on one line, and with N on the next line
LetSource(name, value, next, lines) ==
  IF lines = 1 THEN <<LetHead(name, value) \o next>> ELSE <<LetHead(name, value), next>>

LetSources ==
  {LetSource(x, v, n, k) : x \in LetNames, v \in LetValues, n \in LetNexts, k \in {1, 2}}

OtherTermSources ==
  { <<<<TOp("Add"), TNumber(1), TNumber(2)>>>>,
    <<<<TOp("Add"), TNumber(1), T("LParen"), TOp("Add"), TNumber(2), TNumber(3), T("RParen")>>>>,
    <<<<T("LParen"), TName("f"), TName(LongName), T("RParen")>>>>,
    <<<<T("Lambda"), TName("x"), T("RParen")>>>> }

TermSources == AppSources \cup LetSources \cup OtherTermSources

\* The terms with n nodes over one name, one number and one operator.
RECURSIVE TermsOfSize(_)
TermsOfSize(n) ==
  IF n = 1 THEN {Var("x"), Num(1), Era}
  ELSE {Lam("x", b) : b \in TermsOfSize(n - 1)}
         \cup UNION { UNION { {App(l, r), Dup("a", "b", l, r), NumOp("Add", l, r), Sup(l, r)} :
                                l \in TermsOfSize(k), r \in TermsOfSize(n - 1 - k) } :
                      k \in 1..(n - 2) }

Terms == UNION {TermsOfSize(n) : n \in 1..MaxTermSize}

-----------------------------------------------------------------------------
(* The state machine: one call of a public operation at a time *)

Init ==
  /\ pc = "idle"
  /\ call = "none"
  /\ code = <<>>
  /\ offset = 1
  /\ rules = <<>>
  /\ idx = 1
  /\ book = DefinitionBook_new
  /\ errs = <<>>
  /\ term = <<>>
  /\ oper = "none"
  /\ byte = 0
  /\ result = RNone

\* parse_definition_book(code): the rules are parsed, rules_to_book starts
ParseDefinitionBook ==
  /\ pc = "idle"
  /\ \E src \in BookSources :
       \E p \in {parsed_rules(token_stream(src))} :
         /\ code' = src
         /\ offset' = p.pos
         /\ rules' = p.val
         /\ errs' = p.errs
  /\ pc' = "grouping"
  /\ call' = "parse_definition_book"
  /\ idx' = 1
  /\ book' = DefinitionBook_new
  /\ UNCHANGED <<term, oper, byte, result>>

\* a group of more than one rule
MultipleRules ==
  /\ pc = "grouping"
  /\ idx <= Len(rules)
  /\ def_rules_len(rules, idx) > 1
  /\ errs' = Append(errs, MultipleRulesError(rules, idx))
  /\ idx' = group_by(rules, idx) + 1
  /\ UNCHANGED <<pc, call, code, offset, rules, book, term, oper, byte, result>>

\* a group of one rule whose name the book holds
RepeatedDefinition ==
  /\ pc = "grouping"
  /\ idx <= Len(rules)
  /\ def_rules_len(rules, idx) <= 1
  /\ contains_key(book, Definition(rules[idx].rule).name)
  /\ errs' = Append(errs, RepeatedDefinitionError(rules, idx))
  /\ idx' = group_by(rules, idx) + 1
  /\ UNCHANGED <<pc, call, code, offset, rules, book, term, oper, byte, result>>

\* a group of one rule whose name is new
InsertDefinition ==
  /\ pc = "grouping"
  /\ idx <= Len(rules)
  /\ def_rules_len(rules, idx) <= 1
  /\ ~contains_key(book, Definition(rules[idx].rule).name)
  /\ book' = insert(book, Definition(rules[idx].rule).name, Definition(rules[idx].rule))
  /\ idx' = group_by(rules, idx) + 1
  /\ UNCHANGED <<pc, call, code, offset, rules, errs, term, oper, byte, result>>

\* rules_to_book returns the book; parse expects the end of the input; into_result
ReturnBook ==
  /\ pc = "grouping"
  /\ idx > Len(rules)
  /\ \E pr \in {parse(token_stream(code), POk(book, offset, errs))} :
       /\ errs' = pr.errs
       /\ result' = into_result(pr)
  /\ pc' = "done"
  /\ UNCHANGED <<call, code, offset, rules, idx, book, term, oper, byte>>

ParseTerm ==
  /\ pc = "idle"
  /\ \E src \in TermSources :
       /\ code' = src
       /\ result' = parse_term(src)
  /\ errs' = result'.errs
  /\ pc' = "done"
  /\ call' = "parse_term"
  /\ UNCHANGED <<offset, rules, idx, book, term, oper, byte>>

\* format!("{term}")
DisplayTerm ==
  /\ pc = "idle"
  /\ \E t \in Terms :
       /\ term' = t
       /\ code' = <<Display(t)>>
  /\ pc' = "displayed"
  /\ call' = "display"
  /\ UNCHANGED <<offset, rules, idx, book, errs, oper, byte, result>>

\* parse_term on the text Display produced
ParseDisplayed ==
  /\ pc = "displayed"
  /\ result' = parse_term(code)
  /\ errs' = result'.errs
  /\ pc' = "done"
  /\ UNCHANGED <<call, code, offset, rules, idx, book, term, oper, byte>>

\* u8::from(op)
Encode ==
  /\ pc = "idle"
  /\ \E op \in NumOperSet :
       /\ oper' = op
       /\ byte' = u8_from(op)
  /\ pc' = "encoded"
  /\ call' = "u8_from"
  /\ UNCHANGED <<code, offset, rules, idx, book, errs, term, result>>

\* NumOper::try_from on the opcode u8::from returned
DecodeEncoded ==
  /\ pc = "encoded"
  /\ result' = try_from(byte)
  /\ pc' = "done"
  /\ UNCHANGED <<call, code, offset, rules, idx, book, errs, term, oper, byte>>

\* NumOper::try_from(value)
Decode ==
  /\ pc = "idle"
  /\ \E value \in 0..255 :
       /\ byte' = value
       /\ result' = try_from(value)
  /\ pc' = IF result'.tag = "Ok" THEN "decoded" ELSE "done"
  /\ call' = "try_from"
  /\ UNCHANGED <<code, offset, rules, idx, book, errs, term, oper>>

\* u8::from on the operator try_from returned
EncodeDecoded ==
  /\ pc = "decoded"
  /\ oper' = result.val
  /\ result' = ROk(u8_from(result.val))
  /\ pc' = "done"
  /\ UNCHANGED <<call, code, offset, rules, idx, book, errs, term, byte>>

\* the caller drops the result; the next call starts afresh
Return ==
  /\ pc = "done"
  /\ pc' = "idle"
  /\ call' = "none"
  /\ code' = <<>>
  /\ offset' = 1
  /\ rules' = <<>>
  /\ idx' = 1
  /\ book' = DefinitionBook_new
  /\ errs' = <<>>
  /\ term' = <<>>
  /\ oper' = "none"
  /\ byte' = 0
  /\ result' = RNone

Next ==
  \/ ParseDefinitionBook
  \/ MultipleRules
  \/ RepeatedDefinition
  \/ InsertDefinition
  \/ ReturnBook
  \/ ParseTerm
  \/ DisplayTerm
  \/ ParseDisplayed
  \/ Encode
  \/ DecodeEncoded
  \/ Decode
  \/ EncodeDecoded
  \/ Return

Spec == Init /\ [][Next]_vars

-----------------------------------------------------------------------------
(* Properties of book assembly *)

InBook == call = "parse_definition_book"

RuleName(i) == rules[i].rule.name

\* i starts / ends a maximal contiguous run of rules with one name
RunStart(i) == i = 1 \/ RuleName(i - 1) # RuleName(i)
RunEnd(i) ==
  CHOOSE j \in i..Len(rules) :
    /\ \A k \in i..j : RuleName(k) = RuleName(i)
    /\ j = Len(rules) \/ RuleName(j + 1) # RuleName(i)

\* the rule at i is a run of its own
Lone(i) == RunStart(i) /\ RunEnd(i) = i

Emitted(msg) == SelectSeq(errs, LAMBDA e : e.msg = msg)

RuleNames == [i \in 1..Len(rules) |-> RuleName(i)]

\* C1: a maximal contiguous run of two or more rules with one name emits exactly
\* one "Definition with multiple rules" diagnostic, spanning from the start of the
\* run's first rule to the end of its last rule, and leaves the book unchanged.
C1_MultipleRulesRun ==
  /\ [](InBook /\ pc = "grouping" /\ idx <= Len(rules) => RunStart(idx))
  /\ [](InBook /\ pc = "done" =>
          Len(Emitted("Definition with multiple rules"))
            = Cardinality({i \in 1..Len(rules) : RunStart(i) /\ RunEnd(i) > i}))
  /\ [][(pc = "grouping" /\ idx <= Len(rules) /\ RunEnd(idx) > idx) =>
          /\ errs' = Append(errs, [msg |-> "Definition with multiple rules",
                                   name |-> RuleName(idx),
                                   span |-> [start |-> rules[idx].span.start,
                                             end |-> rules[RunEnd(idx)].span.end]])
          /\ book' = book
          /\ idx' = RunEnd(idx) + 1]_vars

\* names [a, a, b]: one diagnostic for a, over both rules, and a book holding only b
C1_Witness ==
  /\ InBook /\ pc = "done"
  /\ RuleNames = <<"a", "a", "b">>
  /\ Emitted("Definition with multiple rules")
       = <<[msg |-> "Definition with multiple rules", name |-> "a",
            span |-> [start |-> rules[1].span.start, end |-> rules[2].span.end]]>>
  /\ rules[2].span.end > rules[1].span.end
  /\ DOMAIN book = {"b"}

\* C2: a single-rule group whose name the book holds emits exactly one "Repeated
\* definition" diagnostic at the rule's span and leaves the book unchanged; a
\* single-rule group with a new name inserts a definition holding that one rule
\* and emits nothing.
C2_SingleRuleGroup ==
  [][(pc = "grouping" /\ idx <= Len(rules) /\ RunEnd(idx) = idx) =>
       IF RuleName(idx) \in DOMAIN book
       THEN /\ errs' = Append(errs, [msg |-> "Repeated definition", name |-> RuleName(idx),
                                     span |-> rules[idx].span])
            /\ book' = book
       ELSE /\ errs' = errs
            /\ DOMAIN book' = DOMAIN book \cup {RuleName(idx)}
            /\ book'[RuleName(idx)] = [name |-> RuleName(idx), rules |-> <<rules[idx].rule>>]
            /\ \A n \in DOMAIN book : book'[n] = book[n]]_vars

\* names [a, b, a]: the second a is reported, the book keeps the first a and b
C2_Witness ==
  /\ InBook /\ pc = "done"
  /\ RuleNames = <<"a", "b", "a">>
  /\ rules[1].rule.body = Num(1) /\ rules[3].rule.body = Num(2)
  /\ Emitted("Repeated definition")
       = <<[msg |-> "Repeated definition", name |-> "a", span |-> rules[3].span]>>
  /\ DOMAIN book = {"a", "b"}
  /\ book["a"].rules = <<rules[1].rule>>

\* C9: every definition in the book, after any prefix of the rules and at the end,
\* has exactly one rule, and its key, its name and its rule's name are equal.
C9_BookInvariant ==
  /\ \A n \in DOMAIN book :
       /\ Len(book[n].rules) = 1
       /\ book[n].name = n
       /\ book[n].rules[1].name = n
  /\ (InBook /\ pc = "done" /\ result.tag = "Ok") => result.val = book

C9_Witness ==
  /\ InBook /\ pc = "grouping" /\ idx <= Len(rules)
  /\ DOMAIN book = {"a", "b"}
  /\ errs # <<>>

\* the single-rule runs among the rules before idx
LoneBefore(i) == {k \in 1..(i - 1) : Lone(k)}
FirstLone(n, i) ==
  CHOOSE k \in LoneBefore(i) :
    RuleName(k) = n /\ \A j \in LoneBefore(i) : RuleName(j) = n => k <= j

\* C10: a name is a key of the book iff some maximal contiguous run of that name
\* is a single rule, the stored rule is that of the earliest such run, and a
\* "Repeated definition" diagnostic is emitted for each later such run only.
C10_BookCharacterisation ==
  (InBook /\ pc \in {"grouping", "done"}) =>
    /\ DOMAIN book = {RuleName(k) : k \in LoneBefore(idx)}
    /\ \A n \in DOMAIN book : book[n].rules = <<rules[FirstLone(n, idx)].rule>>
    /\ Len(Emitted("Repeated definition"))
         = Cardinality({k \in LoneBefore(idx) : FirstLone(RuleName(k), idx) # k})

\* names [a, a, b, a]: the last a is inserted, and nothing is reported as repeated
C10_Witness ==
  /\ InBook /\ pc = "done"
  /\ RuleNames = <<"a", "a", "b", "a">>
  /\ rules[1].rule.body = Num(1) /\ rules[4].rule.body = Num(2)
  /\ DOMAIN book = {"a", "b"}
  /\ book["a"].rules[1].body = Num(2)
  /\ Emitted("Repeated definition") = <<>>
  /\ Len(Emitted("Definition with multiple rules")) = 1

-----------------------------------------------------------------------------
(* Properties of parse_definition_book on a source *)

\* a line that is one rule
LineIsRule(line) ==
  /\ line # <<>>
  /\ rule_parser(line, 1).ok
  /\ rule_parser(line, 1).pos > Len(line)

LineName(line) == line[2][2]

\* the stream position of the first token of line i
LineStart(i) ==
  IF i = 1 THEN 1 ELSE Len(token_stream(SubSeq(code, 1, i - 1))) + 2

RuleLines == {i \in 1..Len(code) : LineIsRule(code[i])}

\* C3: a source with one definition whose name is longer than 8 characters, and
\* definitions with names within the limit, yields a diagnostic for the oversized
\* name at its span and still returns a book with an entry for each other name.
C3_NameLengthEnforcement ==
  ( /\ InBook /\ pc = "done"
    /\ RuleLines = 1..Len(code)
    /\ Cardinality({i \in RuleLines : LineName(code[i]) = LongName}) = 1
    /\ \E i \in RuleLines : LineName(code[i]) # LongName
    /\ \A i, j \in RuleLines : LineName(code[i]) = LineName(code[j]) => i = j )
  => /\ \E i \in RuleLines :
          /\ LineName(code[i]) = LongName
          /\ \E k \in 1..Len(result.errs) :
               result.errs[k] = [msg |-> "exceed maximum name length", name |-> LongName,
                                 span |-> [start |-> LineStart(i), end |-> LineStart(i) + 1]]
     /\ result.tag = "Ok"
     /\ \A i \in RuleLines :
          Len(LineName(code[i])) <= 8 => LineName(code[i]) \in DOMAIN result.val

\* C4: an error inside one rule does not abort book assembly: every multi-rule
\* group and every repeated definition among the other rules of the source is
\* reported, in addition to the syntax diagnostic.
C4_ErrorDoesNotAbortAssembly ==
  ( /\ InBook /\ pc = "done"
    /\ \E i \in 1..Len(code) : code[i] # <<>> /\ ~LineIsRule(code[i]) )
  => /\ \E k \in 1..Len(result.errs) : result.errs[k].msg = "unexpected token"
     /\ \A i \in RuleLines :
          (i + 1 \in RuleLines /\ LineName(code[i]) = LineName(code[i + 1]))
            => \E k \in 1..Len(result.errs) :
                 /\ result.errs[k].msg = "Definition with multiple rules"
                 /\ result.errs[k].name = LineName(code[i])
     /\ \A i, j \in RuleLines :
          ( /\ i + 1 < j
            /\ LineName(code[i]) = LineName(code[j])
            /\ \A m \in {i - 1, i + 1, j - 1, j + 1} \cap 1..Len(code) :
                 code[m] # <<>> /\ LineName(code[m]) # LineName(code[i]) )
            => \E k \in 1..Len(result.errs) :
                 /\ result.errs[k].msg = "Repeated definition"
                 /\ result.errs[k].name = LineName(code[i])

-----------------------------------------------------------------------------
(* Properties of the opcode tables and of Display *)

\* C5: for each of the 16 operators, decoding its opcode returns the operator;
\* for each code 0x0..0xf, decoding never panics and encoding the decoded
\* operator returns the code.
C5_OpcodeRoundTrip ==
  /\ (call = "u8_from" /\ pc = "done") => (result.tag = "Ok" /\ result.val = oper)
  /\ (call = "try_from" /\ byte \in 0..15) => result.tag # "Panic"
  /\ (call = "try_from" /\ byte \in 0..15 /\ pc = "done")
       => (result.tag = "Ok" /\ result.val = byte)

\* C6: for every Term t, parse_term accepts the text Display produces for t and
\* returns a term structurally equal to t.
C6_DisplayParseRoundTrip ==
  (call = "display" /\ pc = "done") => (result.tag = "Ok" /\ result.val = term)

-----------------------------------------------------------------------------
(* Properties of the term parser *)

\* the index of the parenthesis closing the one open at depth `depth` before pos
RECURSIVE Closing(_, _, _)
Closing(toks, pos, depth) ==
  IF pos > Len(toks) THEN 0
  ELSE IF toks[pos][1] = "RParen"
       THEN IF depth = 1 THEN pos ELSE Closing(toks, pos + 1, depth - 1)
       ELSE Closing(toks, pos + 1, IF toks[pos][1] = "LParen" THEN depth + 1 ELSE depth)

\* the top-level items of a token sequence; an empty item where there is none
RECURSIVE TopItems(_)
TopItems(toks) ==
  IF toks = <<>> THEN <<>>
  ELSE IF toks[1][1] \in {"Name", "Number"}
       THEN <<SubSeq(toks, 1, 1)>> \o TopItems(Tail(toks))
       ELSE IF toks[1][1] = "LParen" /\ Closing(toks, 2, 1) > 0
            THEN <<SubSeq(toks, 1, Closing(toks, 2, 1))>>
                   \o TopItems(SubSeq(toks, Closing(toks, 2, 1) + 1, Len(toks)))
            ELSE <<<<>>>>

ItemTerm(toks) == (CHOOSE it \in Items : it.toks = toks).term

RECURSIVE LeftNest(_)
LeftNest(ts) ==
  IF Len(ts) = 1 THEN ts[1]
  ELSE App(LeftNest(SubSeq(ts, 1, Len(ts) - 1)), ts[Len(ts)])

\* C7: a sequence of n >= 2 consecutive items parses, all items consumed, to the
\* left-nested application App(...App(App(i1, i2), i3)..., in).
C7_ApplicationLeftAssociative ==
  (call = "parse_term" /\ pc = "done" /\ Len(code) = 1) =>
    LET its == TopItems(code[1])
    IN  (Len(its) >= 2 /\ \A k \in 1..Len(its) : \E it \in Items : it.toks = its[k])
          => /\ result.tag = "Ok"
             /\ result.val = LeftNest([k \in 1..Len(its) |-> ItemTerm(its[k])])

\* `f a b c` gives App(App(App(f, a), b), c)
C7_Witness ==
  /\ call = "parse_term" /\ pc = "done"
  /\ code = <<<<TName("f"), TName("a"), TName("b"), TName("c")>>>>
  /\ result.tag = "Ok"
  /\ result.val = App(App(App(Var("f"), Var("a")), Var("b")), Var("c"))

\* the parse of a term text on its own
Alone(toks) == term_parser(toks, 1)

\* C8: `let x = V; N` parses to App(Lam(x, N'), V'), V' and N' the parses of V and N.
C8_LetDesugaring ==
  (call = "parse_term" /\ pc = "done") =>
    \A x \in LetNames, v \in LetValues, n \in LetNexts, k \in {1, 2} :
      code = LetSource(x, v, n, k) =>
        /\ Alone(v).ok /\ Alone(v).pos > Len(v)
        /\ Alone(n).ok /\ Alone(n).pos > Len(n)
        /\ result.tag = "Ok"
        /\ result.val = App(Lam(x, Alone(n).val), Alone(v).val)

\* `let x = 1; x` gives the term of `(\x x) 1`
C8_Witness ==
  /\ call = "parse_term" /\ pc = "done"
  /\ code = <<<<T("Let"), TName("x"), T("Equals"), TNumber(1), T("Semicolon"), TName("x")>>>>
  /\ result.tag = "Ok"
  /\ result.val = App(Lam("x", Var("x")), Num(1))
  /\ result.val = parse_term(<<<<T("LParen"), T("Lambda"), TName("x"), TName("x"), T("RParen"),
                                TNumber(1)>>>>).val

=============================================================================
